---- MODULE Spec2Model ----
(***************************************************************************)
(* Model of the progress logger of src/src/lib.rs: the ProgressLogger      *)
(* struct, its builder, update / update_light / stop, the emission routine *)
(* log() and the two accessors.                                            *)
(*                                                                         *)
(* Time is an integer number of clock ticks (one tick = one second of the  *)
(* monotonic clock Instant::now()).  u64 values keep a width of CountBits  *)
(* bits; f64 values are exact non-negative rationals plus inf and NaN      *)
(* (rounding of u64 -> f64 is not modelled).  The log sink is taken to be  *)
(* enabled at info level, so every info!() call produces one line.  The    *)
(* memory sampler (self.system) has no effect on the tracker's fields and  *)
(* appears only as the "mem" and "swap" fields of a progress line.         *)
(***************************************************************************)
EXTENDS Integers, Naturals, Sequences, FiniteSets, TLC

\* ---- bounds -------------------------------------------------------------
\* width of the counter (u64 in the source)
CountBits == 3
\* the period of update_light's time check (1_000_000 in the source)
LightPeriod == 3
\* last clock tick
MaxTime == 3
\* largest configured frequency, in ticks
MaxFreq == 1
\* number of update calls in a run
MaxCalls == 4
\* longest integer part handed to the formatter, in digits
MaxDigits == 7

RECURSIVE Pow2(_)
Pow2(k) == IF k = 0 THEN 1 ELSE 2 * Pow2(k - 1)

Modulus == Pow2(CountBits)
MaxU == Modulus - 1

\* the batch sizes tried
NVals == {0, 1, LightPeriod}

VARIABLES
    clock,              \* the value Instant::now() returns next
    build,              \* "debug": overflow checks on; "release": off
    start, count, expected_updates, items, last_logged, ettc, throughput,
    frequency,          \* the fields of ProgressLogger
    pc,                 \* "running", "stopped" (consumed by stop), "aborted"
    panicAt,            \* the place of the panic when pc = "aborted"
    line,               \* the last line handed to info!()
    emitted,            \* number of lines emitted by log()
    doneLines,          \* number of lines emitted by stop()
    ret,                \* what time_to_completion() returned, if it was the last call
    sum,                \* sum of all n passed to update / update_light / up
    calls,              \* number of update / update_light / up calls
    checks,             \* number of time checks made by update_light
    lightOnly,          \* every call so far was update_light(1)
    emitAt,             \* the time read by the last call that emitted (start if none)
    upBase, upK,        \* count before the current streak of up() calls, its length
    unchecked,          \* items added by update_light, in batches of at most one period and
                        \* with the gate open, since the last time check
    fmt                 \* the last call of PrettyNumber::from made on its own

vars == <<clock, build, start, count, expected_updates, items, last_logged,
          ettc, throughput, frequency, pc, panicAt, line, emitted, doneLines,
          ret, sum, calls, checks, lightOnly, emitAt, upBase, upK, unchecked, fmt>>

\* ---- Option<u64>, f64 and Option<f64> -----------------------------------
NoneU == [some |-> FALSE, v |-> 0]
SomeU(x) == [some |-> TRUE, v |-> x]

RECURSIVE Gcd(_, _)
Gcd(a, b) == IF b = 0 THEN a ELSE Gcd(b, a % b)

NoneF == [k |-> "none", neg |-> FALSE, n |-> 0, d |-> 0]
NaN == [k |-> "nan", neg |-> FALSE, n |-> 0, d |-> 0]
Inf == [k |-> "inf", neg |-> FALSE, n |-> 1, d |-> 0]
Fin(n, d) ==
    LET g == Gcd(n, d)
    IN  [k |-> "fin", neg |-> FALSE, n |-> n \div g, d |-> d \div g]
\* -x
Neg(x) == [x EXCEPT !.neg = ~x.neg]

\* a as f64 / b as f64, for a, b >= 0  (IEEE: x/0 = inf, 0/0 = NaN)
F64DivInt(a, b) ==
    IF b = 0 THEN (IF a = 0 THEN NaN ELSE Inf) ELSE Fin(a, b)

\* a as f64 / x, for a >= 0 and a non-negative f64 x
F64DivF(a, x) ==
    CASE x.k = "nan" -> NaN
      [] x.k = "inf" -> Fin(0, 1)
      [] x.k = "fin" /\ x.n = 0 -> (IF a = 0 THEN NaN ELSE Inf)
      [] OTHER -> Fin(a * x.d, x.n)

\* ---- checked / wrapping integer arithmetic -------------------------------
\* mutant: `self.count = cnt` in place of `self.count += cnt`
AddCount_Assign(c, n, b) == [panic |-> FALSE, v |-> n]

\* self.count += cnt: panics under overflow checks, wraps without them
AddCount(c, n, b) ==
    IF c + n > MaxU
    THEN (IF b = "debug" THEN [panic |-> TRUE, v |-> c]
                         ELSE [panic |-> FALSE, v |-> (c + n) % Modulus])
    ELSE [panic |-> FALSE, v |-> c + n]

\* expected_updates - self.count: panics under overflow checks, wraps without
SubU64(a, c, b) ==
    IF a < c
    THEN (IF b = "debug" THEN [panic |-> TRUE, v |-> 0]
                         ELSE [panic |-> FALSE, v |-> (a - c) % Modulus])
    ELSE [panic |-> FALSE, v |-> a - c]

\* mutant: `>=` in place of `>`
GateOpen_GE(now, last, freq) == (now - last) >= freq

\* mutant: the time check dropped
GateOpen_Ungated(now, last, freq) == TRUE

\* (now - self.last_logged) > self.frequency
GateOpen(now, last, freq) == (now - last) > freq

\* mutant: `self.last_logged = now` moved out of the if
NextLastLogged_Always(logged, now, last) == now

\* mutant: the condition negated
NextLastLogged_OnSkip(logged, now, last) == IF logged THEN last ELSE now

\* self.last_logged after the time check: `self.last_logged = now` runs only
\* after log() has returned
NextLastLogged(logged, now, last) == IF logged THEN now ELSE last

\* mutant: the check made one item early
LightCheck_Early(c) == (c + 1) % LightPeriod = 0

\* self.count % 1_000_000 == 0
LightCheck(c) == c % LightPeriod = 0

\* x >= 0.0: false for NaN, true for -0.0
F64GeZero(x) == x.k # "nan" /\ (~x.neg \/ (x.k = "fin" /\ x.n = 0))

\* x < 0.0
F64Negative(x) == x.k # "nan" /\ x.neg /\ ~(x.k = "fin" /\ x.n = 0)

\* mutant: assert!(x > 0.0), as the message "only positive number" says
PrettyF64Panics_Strict(x) == ~F64GeZero(x) \/ (x.k = "fin" /\ x.n = 0)

\* assert!(x >= 0.0) of PrettyNumber::from(f64): fails for NaN and for
\* negative x
PrettyF64Panics(x) == ~F64GeZero(x)

\* ---- PrettyNumber -----------------------------------------------------------
\* A rendered string is a sequence of characters; the two escape sequences
\* "\x1B[4m" (underline on) and "\x1B[0m" (all attributes off) are one token
\* each.
ON == "ESC[4m"
OFF == "ESC[0m"

DigitChar(d) == <<"0", "1", "2", "3", "4", "5", "6", "7", "8", "9">>[d + 1]

RECURSIVE Pow10(_)
Pow10(k) == IF k = 0 THEN 1 ELSE 10 * Pow10(k - 1)

\* format!("{}", n)
RECURSIVE U64Str(_)
U64Str(n) ==
    IF n < 10 THEN <<DigitChar(n)>>
    ELSE Append(U64Str(n \div 10), DigitChar(n % 10))

\* s.chars().rev().collect()
RECURSIVE Rev(_)
Rev(s) == IF s = <<>> THEN <<>> ELSE Append(Rev(Tail(s)), Head(s))

\* tmp.chunks(3).collect()
RECURSIVE Chunks3(_)
Chunks3(t) ==
    IF t = <<>> THEN <<>>
    ELSE IF Len(t) <= 3 THEN <<t>>
    ELSE <<SubSeq(t, 1, 3)>> \o Chunks3(SubSeq(t, 4, Len(t)))

\* mutant: the parity test turned round
StartUl_Even(k) == k % 2 = 0

\* let mut ul = chunks.len() % 2 == 1
StartUl(k) == k % 2 = 1

\* mutant: the two escape sequences swapped
ChunkMarker_Swapped(ul) == IF ul THEN ON ELSE OFF

\* if ul { push_str("\x1B[0m") } else { push_str("\x1B[4m") }
ChunkMarker(ul) == IF ul THEN OFF ELSE ON

\* mutant: the chunk pushed as stored (least significant digit first)
ChunkText_Stored(chunk) == chunk

\* while let Some(c) = chunk.pop() { rendered.push(c) }
ChunkText(chunk) == Rev(chunk)

\* while let Some(chunk) = chunks.pop() { ... }
RECURSIVE RenderLoop(_, _, _)
RenderLoop(chunks, ul, rendered) ==
    IF chunks = <<>> THEN [ul |-> ul, rendered |-> rendered]
    ELSE LET chunk == chunks[Len(chunks)]
             rest == SubSeq(chunks, 1, Len(chunks) - 1)
         IN  RenderLoop(rest, ~ul,
                        rendered \o <<ChunkMarker(ul)>> \o ChunkText(chunk))

\* the rendering of a digit string s, with the closing `if ul`
RenderInt(s) ==
    LET chunks == Chunks3(Rev(s))
        r == RenderLoop(chunks, StartUl(Len(chunks)), <<>>)
    IN  IF r.ul THEN Append(r.rendered, OFF) ELSE r.rendered

\* impl From<u64> for PrettyNumber
PrettyU64(n) == RenderInt(U64Str(n))

\* r / d rounded to an integer, ties to even
RoundHalfEven(r, d) ==
    LET q == r \div d
        m == r % d
    IN  IF 2 * m > d \/ (2 * m = d /\ q % 2 = 1) THEN q + 1 ELSE q

\* format!("{:.2}", x) for x that is not NaN
F64Str2(x) ==
    IF x.k = "inf" THEN (IF x.neg THEN <<"-">> ELSE <<>>) \o <<"i", "n", "f">>
    ELSE LET whole == x.n \div x.d
             h == RoundHalfEven((x.n % x.d) * 100, x.d)
             int == IF h = 100 THEN whole + 1 ELSE whole
             frac == IF h = 100 THEN 0 ELSE h
         IN  (IF x.neg THEN <<"-">> ELSE <<>>) \o U64Str(int) \o <<".">>
                \o <<DigitChar(frac \div 10), DigitChar(frac % 10)>>

\* the index of the first "." of s from position i on, Len(s) + 1 if none
RECURSIVE DotAt(_, _)
DotAt(s, i) ==
    IF i > Len(s) THEN Len(s) + 1
    ELSE IF s[i] = "." THEN i ELSE DotAt(s, i + 1)

\* the first two items of s.split(".")
SplitDot(s) ==
    LET i == DotAt(s, 1)
        j == DotAt(s, i + 1)
    IN  [int |-> SubSeq(s, 1, i - 1),
         hasDec |-> i <= Len(s),
         dec |-> SubSeq(s, i + 1, j - 1)]

\* impl From<f64> for PrettyNumber, past the assert
PrettyF64(x) ==
    LET parts == SplitDot(F64Str2(x))
    IN  IF parts.hasDec THEN RenderInt(parts.int) \o <<".">> \o parts.dec
        ELSE RenderInt(parts.int)

\* ---- Duration::from_secs_f64 ---------------------------------------------
NoRet == [k |-> "unset", secs |-> 0, nanos |-> 0]
NoneD == [k |-> "none", secs |-> 0, nanos |-> 0]
\* panics when the value is not finite or exceeds the u64 seconds of Duration
FromSecsPanics(x) == x.k # "fin" \/ x.n >= Modulus * x.d
\* whole seconds and the nanoseconds of the fraction, truncated
\* (floor(r * 10^9 / d), by long division in three steps of 10^3)
SubsecNanos(r, d) ==
    LET q1 == (r * 1000) \div d
        r1 == (r * 1000) % d
        q2 == (r1 * 1000) \div d
        r2 == (r1 * 1000) % d
        q3 == (r2 * 1000) \div d
    IN  q1 * 1000000 + q2 * 1000 + q3
DurationFromSecsF64(x) ==
    [k |-> "some", secs |-> x.n \div x.d, nanos |-> SubsecNanos(x.n % x.d, x.d)]

\* ---- lines ---------------------------------------------------------------
NoLine == [kind |-> "none", fields |-> {}, elapsed |-> 0, count |-> 0,
           items |-> "", left |-> NoneF, thr |-> NoneF]

ProgressLine(el, c, it, left, thr) ==
    [kind |-> "progress",
     fields |-> {"mem", "swap", "elapsed", "count", "items", "throughput"}
                \cup (IF left.k = "none" THEN {} ELSE {"left"}),
     elapsed |-> el, count |-> c, items |-> it, left |-> left, thr |-> thr]

\* mutant: stop() emitting the line of log()
DoneLine_AsProgress(el, c, it, thr) ==
    [kind |-> "done",
     fields |-> {"mem", "swap", "elapsed", "count", "items", "throughput"},
     elapsed |-> el, count |-> c, items |-> it, left |-> NoneF, thr |-> thr]

DoneLine(el, c, it, thr) ==
    [kind |-> "done",
     fields |-> {"elapsed", "count", "items", "throughput"},
     elapsed |-> el, count |-> c, items |-> it, left |-> NoneF, thr |-> thr]

\* ---- fn log(&mut self), run with count c while Instant::now() returns t ---
\* mutant: seconds per item in place of items per second
LogThroughput_Inverted(c, elapsed) == F64DivInt(elapsed, c)

LogThroughput(c, elapsed) == F64DivInt(c, elapsed)

LogPrediction(rem, thr) == F64DivF(rem, thr)

\* mutant: the prediction made whether or not expected_updates is set
HasExpected_Always(e) == TRUE

\* the condition of `if let Some(expected_updates) = self.expected_updates`
HasExpected(e) == e.some

Log(c, t) ==
    LET elapsed == t - start
        thr == LogThroughput(c, elapsed)
        sub == SubU64(expected_updates.v, c, build)
        pred == LogPrediction(sub.v, thr)
    IN  IF HasExpected(expected_updates)
        THEN IF sub.panic
             THEN [panic |-> "ettc_sub", throughput |-> thr, ettc |-> ettc,
                   line |-> line, n |-> 0]
             ELSE IF PrettyF64Panics(thr)
             THEN [panic |-> "assert_f64", throughput |-> thr, ettc |-> pred,
                   line |-> line, n |-> 0]
             ELSE [panic |-> "none", throughput |-> thr, ettc |-> pred,
                   line |-> ProgressLine(elapsed, c, items, pred, thr), n |-> 1]
        ELSE IF PrettyF64Panics(thr)
             THEN [panic |-> "assert_f64", throughput |-> thr, ettc |-> ettc,
                   line |-> line, n |-> 0]
             ELSE [panic |-> "none", throughput |-> thr, ettc |-> ettc,
                   line |-> ProgressLine(elapsed, c, items, NoneF, thr), n |-> 1]

\* no call of the formatter made yet
FmtIdle == [op |-> "none", n |-> 0, x |-> NoneF, panic |-> FALSE, out |-> <<>>]

\* ---- ProgressLoggerBuilder::start ----------------------------------------
Init ==
    /\ clock = 0
    /\ build \in {"debug", "release"}
    /\ start = clock
    /\ count = 0
    /\ expected_updates \in {NoneU} \cup {SomeU(x) : x \in {0, 2}}
    /\ items = "updates"
    /\ last_logged = clock
    /\ ettc = NoneF
    /\ throughput = NoneF
    /\ frequency \in 0..MaxFreq
    /\ pc = "running"
    /\ panicAt = "none"
    /\ line = NoLine
    /\ emitted = 0
    /\ doneLines = 0
    /\ ret = NoRet
    /\ sum = 0
    /\ calls = 0
    /\ checks = 0
    /\ lightOnly = TRUE
    /\ emitAt = clock
    /\ upBase = 0
    /\ upK = 0
    /\ unchecked = 0
    /\ fmt = FmtIdle

\* ---- the clock advances between calls ------------------------------------
Tick ==
    /\ pc = "running"
    /\ clock < MaxTime
    /\ clock' = clock + 1
    /\ ret' = NoRet
    /\ UNCHANGED <<build, start, count, expected_updates, items, last_logged,
                   ettc, throughput, frequency, pc, panicAt, line, emitted,
                   doneLines, sum, calls, checks, lightOnly, emitAt, upBase, upK,
                   unchecked, fmt>>

\* the clock stands still or moves on between the two reads of one call
Lags == {0, 1}

\* ---- update, update_light and up ------------------------------------------
\* does this call get to the time check?  update: always; update_light: only
\* when the new count is a multiple of the period
DoesCheck(op, c) == IF op = "update_light" THEN LightCheck(c) ELSE TRUE

Ghosts(op, n, checked) ==
    /\ emitAt' = IF emitted' # emitted THEN clock ELSE emitAt
    /\ sum' = sum + n
    /\ calls' = calls + 1
    /\ checks' = IF op = "update_light" /\ checked THEN checks + 1 ELSE checks
    /\ lightOnly' = (lightOnly /\ op = "update_light" /\ n = 1)
    /\ upBase' = IF op = "up" THEN (IF upK = 0 THEN count ELSE upBase) ELSE 0
    /\ upK' = IF op = "up" THEN upK + 1 ELSE 0
    /\ unchecked' = IF checked THEN 0
                    ELSE IF panicAt' = "count_add" THEN unchecked
                    ELSE IF op = "update_light" /\ n <= LightPeriod
                            /\ GateOpen(clock, last_logged, frequency)
                         THEN unchecked + n
                         ELSE unchecked

\* one call op(n); d is the advance of the clock between the call's read of
\* Instant::now() and the read inside log()
Call(op, n, d) ==
    /\ pc = "running"
    /\ calls < MaxCalls
    /\ clock + d <= MaxTime
    /\ LET add == AddCount(count, n, build)
           now == clock
       IN  IF add.panic
           THEN /\ pc' = "aborted"
                /\ panicAt' = "count_add"
                /\ UNCHANGED <<clock, count, last_logged, ettc, throughput,
                               line, emitted>>
                /\ Ghosts(op, n, FALSE)
           ELSE IF DoesCheck(op, add.v) /\ GateOpen(now, last_logged, frequency)
           THEN LET r == Log(add.v, clock + d)
                IN  /\ count' = add.v
                    /\ clock' = clock + d
                    /\ throughput' = r.throughput
                    /\ ettc' = r.ettc
                    /\ line' = r.line
                    /\ emitted' = emitted + r.n
                    /\ Ghosts(op, n, TRUE)
                    /\ IF r.panic = "none"
                       THEN /\ last_logged' = NextLastLogged(TRUE, now, last_logged)
                            /\ UNCHANGED <<pc, panicAt>>
                       ELSE /\ pc' = "aborted"
                            /\ panicAt' = r.panic
                            /\ UNCHANGED last_logged
           ELSE /\ count' = add.v
                /\ d = 0
                /\ last_logged' = NextLastLogged(FALSE, now, last_logged)
                /\ UNCHANGED <<clock, ettc, throughput, line, emitted, pc,
                               panicAt>>
                /\ Ghosts(op, n, DoesCheck(op, add.v))
    /\ ret' = NoRet
    /\ UNCHANGED <<build, start, expected_updates, items, frequency, doneLines,
                   fmt>>

\* pub fn update<N: Into<u64>>(&mut self, cnt: N)
Update(n, d) ==
    /\ n \in 0..MaxU
    /\ Call("update", n, d)

\* pub fn update_light<N: Into<u64>>(&mut self, cnt: N)
UpdateLight(n, d) ==
    /\ n \in 0..MaxU
    /\ Call("update_light", n, d)

\* up(): shorthand for update(1)
Up(d) ==
    /\ d \in Lags
    /\ Call("up", 1, d)

\* ---- stop -----------------------------------------------------------------
Stop ==
    /\ pc = "running"
    /\ LET elapsed == clock - start
           thr == F64DivInt(count, elapsed)
       IN  IF PrettyF64Panics(thr)
           THEN /\ pc' = "aborted"
                /\ panicAt' = "stop_assert_f64"
                /\ UNCHANGED <<line, doneLines>>
           ELSE /\ pc' = "stopped"
                /\ line' = DoneLine(elapsed, count, items, thr)
                /\ doneLines' = doneLines + 1
                /\ UNCHANGED panicAt
    /\ UNCHANGED <<clock, build, start, count, expected_updates, items,
                   last_logged, ettc, throughput, frequency, emitted, sum,
                   calls, checks, lightOnly, emitAt, upBase, upK, unchecked,
                   fmt>>
    /\ ret' = NoRet

\* ---- accessors ------------------------------------------------------------
\* pub fn throughput(&self) -> Option<f64>
Throughput == throughput

\* pub fn time_to_completion(&self) -> Option<Duration>
TimeToCompletion ==
    /\ pc = "running"
    /\ IF ettc.k = "none"
       THEN /\ ret' = NoneD
            /\ UNCHANGED <<pc, panicAt>>
       ELSE IF FromSecsPanics(ettc)
       THEN /\ pc' = "aborted"
            /\ panicAt' = "from_secs_f64"
            /\ UNCHANGED ret
       ELSE /\ ret' = DurationFromSecsF64(ettc)
            /\ UNCHANGED <<pc, panicAt>>
    /\ UNCHANGED <<clock, build, start, count, expected_updates, items,
                   last_logged, ettc, throughput, frequency, line, emitted,
                   doneLines, sum, calls, checks, lightOnly, emitAt, upBase, upK,
                   unchecked, fmt>>

Next ==
    \/ Tick
    \/ \E n \in NVals, d \in Lags : Update(n, d)
    \/ \E n \in NVals, d \in Lags : UpdateLight(n, d)
    \/ \E d \in Lags : Up(d)
    \/ Stop
    \/ TimeToCompletion

Spec == Init /\ [][Next]_vars

\* ---- the formatter called on its own, once in a run -------------------------
\* the number written 1 2 3 ... L
RECURSIVE Ramp(_)
Ramp(L) == IF L = 0 THEN 0 ELSE 10 * Ramp(L - 1) + L

\* the integers formatted
FmtInts ==
    {a * Pow10(e) + b : a \in 0..9, e \in 0..(MaxDigits - 1), b \in 0..9}
        \cup {Ramp(L) : L \in 1..MaxDigits}

\* the floats formatted: whole + e/8, both signs, the infinities and NaN
FmtFloats ==
    LET pos == {Fin(8 * w + e, 8) :
                  w \in {a * Pow10(p) : a \in 0..9, p \in 0..(MaxDigits - 1)}
                          \cup {Ramp(L) : L \in 1..MaxDigits},
                  e \in 0..7}
    IN  pos \cup {Neg(x) : x \in pos} \cup {Inf, Neg(Inf), NaN}

TrackerVars == <<clock, build, start, count, expected_updates, items,
                 last_logged, ettc, throughput, frequency, pc, panicAt, line,
                 emitted, doneLines, ret, sum, calls, checks, lightOnly,
                 emitAt, upBase, upK, unchecked>>

\* PrettyNumber::from(n: u64)
FormatU64(n) ==
    /\ n \in FmtInts
    /\ fmt = FmtIdle
    /\ fmt' = [op |-> "u64", n |-> n, x |-> NoneF, panic |-> FALSE,
               out |-> PrettyU64(n)]
    /\ UNCHANGED TrackerVars

\* PrettyNumber::from(x: f64)
FormatF64(x) ==
    /\ x \in FmtFloats
    /\ fmt = FmtIdle
    /\ fmt' = IF PrettyF64Panics(x)
              THEN [op |-> "f64", n |-> 0, x |-> x, panic |-> TRUE, out |-> <<>>]
              ELSE [op |-> "f64", n |-> 0, x |-> x, panic |-> FALSE,
                    out |-> PrettyF64(x)]
    /\ UNCHANGED TrackerVars

NextFmt ==
    \/ \E n \in FmtInts : FormatU64(n)
    \/ \E x \in FmtFloats : FormatF64(x)

\* one tracker, never called: the default builder
InitFmt ==
    /\ Init
    /\ build = "debug"
    /\ expected_updates = NoneU
    /\ frequency = MaxFreq

SpecFmt == InitFmt /\ [][NextFmt]_vars

\* ---- properties ------------------------------------------------------------

\* C1: after any sequence of update / update_light / up calls the count is
\* the sum of all n passed.
C1_CountIsSum == pc \in {"running", "stopped"} => count = sum

\* C2: an update or update_light call emits only if the time it read exceeds
\* last_logged by strictly more than frequency; so the first emission is more
\* than frequency after start, two consecutive emissions are more than
\* frequency apart, and one call emits at most one line.
C2_GateBeforeEmission ==
    [][emitted' # emitted =>
          /\ GateOpen(clock, last_logged, frequency)
          /\ clock - emitAt > frequency
          /\ clock - start > frequency
          /\ emitted' = emitted + 1]_vars

C2_Witness == emitted >= 2 /\ pc = "running" /\ clock - emitAt <= frequency

\* C3: stop() completes without aborting and emits exactly one final line, in
\* every state it is called in.
C3_StopEmitsOnce ==
    /\ panicAt # "stop_assert_f64"
    /\ pc = "stopped" => doneLines = 1

\* C4: update_light makes the time check (and so can emit) only in a call
\* after which count is a multiple of the period; in period + 1 calls of
\* update_light(1) from a fresh tracker the check is made exactly once, at
\* call number period.
C4_LightCheckOnMultiples ==
    [][/\ (\E n \in NVals, d \in Lags : UpdateLight(n, d))
            => ((checks' # checks \/ emitted' # emitted)
                    => count' % LightPeriod = 0)
       /\ (lightOnly' /\ calls' <= LightPeriod + 1)
            => checks' = IF calls' >= LightPeriod THEN 1 ELSE 0]_vars

C4_Witness ==
    lightOnly /\ calls = LightPeriod + 1 /\ checks = 1 /\ pc = "running"

C6_TimeToCompletionReturns ==
    /\ panicAt # "from_secs_f64"
    /\ ret.k # "unset" =>
          ret = IF expected_updates.some /\ emitted > 0
                THEN DurationFromSecsF64(line.left)
                ELSE NoneD

\* C7: without expected_updates, time_to_completion() returns None in every
\* state, before and after emissions.
C7_NoExpectedNoEta ==
    ~expected_updates.some =>
        /\ ettc = NoneF
        /\ ret.k \in {"unset", "none"}
        /\ panicAt # "from_secs_f64"

C7_Witness ==
    ~expected_updates.some /\ emitted > 0 /\ ret.k = "none"

C9_OverrunIsZeroLeft ==
    /\ panicAt # "ettc_sub"
    /\ (line.kind = "progress" /\ expected_updates.some
          /\ line.count > expected_updates.v) => line.left = Fin(0, 1)

\* C10: no update, update_light or up call decreases count.
C10_CountNeverDecreases == [][count' >= count]_vars

\* ---- properties of the tracker, continued ------------------------------------
\* a step that is one call of update, update_light or up: the steps that
\* count a call
IsCall == calls' = calls + 1

\* C11: last_logged never moves backward, changes only in an update or
\* update_light call that emits, and is start until the first emission.
C11_LastLoggedOnlyOnEmission ==
    [][/\ last_logged' >= last_logged
       /\ last_logged' # last_logged => (IsCall /\ emitted' = emitted + 1)
       /\ emitted' = 0 => last_logged' = start']_vars

C11_Witness ==
    pc = "running" /\ emitted >= 1 /\ last_logged > start /\ calls > emitted
        /\ clock > last_logged

\* C15: every update(n) call that reads the time and finds it more than
\* frequency after last_logged emits exactly one line and sets last_logged to
\* that time read.
C15_UpdateEmitsWhenGateOpen ==
    [][((\E n \in NVals, d \in Lags : Update(n, d))
            /\ panicAt' # "count_add"
            /\ GateOpen(clock, last_logged, frequency))
          => (emitted' = emitted + 1 /\ last_logged' = clock)]_vars

\* the fields of a line of log()
ProgressFields(e) ==
    {"mem", "swap", "elapsed", "count", "items", "throughput"}
        \cup (IF e.some THEN {"left"} ELSE {})

\* C16 as claimed: the line of stop() has the fields of a line of log():
\* memory and swap, elapsed time, count, items, time left when
\* expected_updates is set, throughput.
C16_StopLineAsProgressLine ==
    line.kind = "done" => line.fields = ProgressFields(expected_updates)

\* C16 as amended: the line of stop() has elapsed time, count, items and
\* throughput = count / (now - start), and neither memory and swap nor the
\* time left; stop() leaves the cached throughput and ETA as they were.
C16_StopLineIsSummary ==
    line.kind = "done" =>
        /\ line.fields = {"elapsed", "count", "items", "throughput"}
        /\ line.elapsed = clock - start
        /\ line.count = count
        /\ line.items = items
        /\ line.thr = F64DivInt(count, clock - start)
        /\ (emitted = 0 => throughput = NoneF /\ ettc = NoneF)

C16_Witness ==
    pc = "stopped" /\ expected_updates.some /\ emitted > 0 /\ ettc.k = "fin"
        /\ line.kind = "done"

\* C17: with the gate open, update_light calls (in batches of at most one
\* period) make the next time check before count has advanced by more than
\* about one period (here: two periods).
C17_LightCheckWithinPeriod == unchecked <= 2 * LightPeriod

\* C19: no call changes start, expected_updates, items or frequency; a call
\* that does not emit changes count only.
C19_CallFrame ==
    [][IsCall =>
          /\ start' = start
          /\ expected_updates' = expected_updates
          /\ items' = items
          /\ frequency' = frequency
          /\ emitted' = emitted =>
                /\ last_logged' = last_logged
                /\ throughput' = throughput
                /\ ettc' = ettc
                /\ line' = line]_vars

\* the frame of C19 for the calls that return
C19_ReturningCallFrame ==
    [][IsCall =>
          /\ start' = start
          /\ expected_updates' = expected_updates
          /\ items' = items
          /\ frequency' = frequency
          /\ (pc' = "running" /\ emitted' = emitted) =>
                /\ last_logged' = last_logged
                /\ throughput' = throughput
                /\ ettc' = ettc
                /\ line' = line]_vars

C19_Witness ==
    pc = "running" /\ emitted >= 1 /\ count # line.count /\ ettc.k = "fin"
        /\ clock - last_logged > frequency

\* C20: every emission of log() runs with elapsed > 0, so its throughput is
\* finite and not negative and the assert of the float formatter holds there,
\* also with frequency = 0.
C20_EmissionThroughputFinite ==
    /\ panicAt # "assert_f64"
    /\ throughput.k # "none" => (throughput.k = "fin" /\ ~throughput.neg)
    /\ line.kind = "progress" =>
          (line.elapsed > 0 /\ line.thr.k = "fin" /\ ~line.thr.neg)

C20_Witness ==
    line.kind = "progress" /\ frequency = 0 /\ line.elapsed = 1 /\ line.count > 0

\* ---- properties of the formatter ---------------------------------------------
IsMarker(c) == c \in {ON, OFF}

\* r without its escape sequences
Strip(r) == SelectSeq(r, LAMBDA c : ~IsMarker(c))

\* the number a string of decimal digits stands for, -1 if it is none
RECURSIVE DigitsValue(_)
DigitsValue(s) ==
    IF s = <<>> THEN 0
    ELSE LET c == s[Len(s)]
             rest == DigitsValue(SubSeq(s, 1, Len(s) - 1))
         IN  IF rest < 0 \/ ~(\E d \in 0..9 : DigitChar(d) = c) THEN -1
             ELSE 10 * rest + (CHOOSE d \in 0..9 : DigitChar(d) = c)

\* is the underline on for the character at position i of r?
RECURSIVE EmphAt(_, _)
EmphAt(r, i) ==
    IF i <= 1 THEN FALSE
    ELSE IF r[i - 1] = ON THEN TRUE
    ELSE IF r[i - 1] = OFF THEN FALSE
    ELSE EmphAt(r, i - 1)

\* the rendered integer part: r up to its decimal point
IntegerPart(r) == SubSeq(r, 1, DotAt(r, 1) - 1)

\* the number of characters of r after position i
CharsAfter(r, i) == Cardinality({j \in (i + 1)..Len(r) : ~IsMarker(r[j])})

\* C12: the float formatter fails for every negative input and for no
\* non-negative one, 0 included; the integer formatter never fails.
C12_FailsOnNegativeOnly ==
    /\ fmt.op = "f64" =>
          /\ (fmt.x.k \in {"fin", "inf"} /\ fmt.x.neg /\ fmt.x.n > 0) => fmt.panic
          /\ (fmt.x.k \in {"fin", "inf"} /\ (~fmt.x.neg \/ fmt.x.n = 0)) => ~fmt.panic
    /\ fmt.op = "u64" => ~fmt.panic

C12_Witness == fmt.op = "f64" /\ fmt.panic /\ F64Negative(fmt.x) /\ fmt.x.k = "fin"

\* C13: the formatted integer without its emphasis markers is the decimal
\* representation of the integer: the same digits in the same order.
C13_StripIsDecimal ==
    fmt.op = "u64" =>
        LET d == Strip(fmt.out)
        IN  /\ Len(d) >= 1
            /\ DigitsValue(d) = fmt.n
            /\ (Len(d) > 1 => d[1] # "0")

C13_Witness == fmt.op = "u64" /\ fmt.n = Ramp(MaxDigits)

\* C14: no formatted string leaves the emphasis on at its end: every
\* emphasis-on marker is followed by a later emphasis-off marker.
C14_EmphasisClosed ==
    (fmt.op # "none" /\ ~fmt.panic) =>
        /\ ~EmphAt(fmt.out, Len(fmt.out) + 1)
        /\ \A i \in 1..Len(fmt.out) :
              fmt.out[i] = ON => \E j \in (i + 1)..Len(fmt.out) : fmt.out[j] = OFF

C14_Witness ==
    fmt.op = "f64" /\ ~fmt.panic /\ \E i \in 1..Len(fmt.out) : fmt.out[i] = ON

\* C18: the chunks of three of the integer part, counted from the least
\* significant one, carry alternating emphasis, and the least significant
\* chunk is not emphasised, for an odd and for an even number of chunks.
C18_ChunksAlternate ==
    (fmt.op # "none" /\ ~fmt.panic) =>
        LET ip == IntegerPart(fmt.out)
        IN  \A i \in 1..Len(ip) :
               ~IsMarker(ip[i]) =>
                   (EmphAt(ip, i) <=> ((CharsAfter(ip, i) \div 3) % 2 = 1))

C18_Witness == fmt.op = "u64" /\ Len(Strip(fmt.out)) = 6

====
